---- MODULE Spec2Model ----
(***************************************************************************)
(* pytop: the SystemMonitor worker (monitor.py), the snapshot queue and    *)
(* the consumer tick of PytopApp with its ProcessTable (app.py).           *)
(*                                                                         *)
(* Python strings are sequences of one-character strings.  A CPU reading   *)
(* is identified by the number of the psutil.cpu_percent call that         *)
(* produced it, so that two readings are never confused.                   *)
(***************************************************************************)
EXTENDS Integers, Sequences, FiniteSets, TLC

\* ---------------------------------------------------------------- bounds
\* Threads the monitor may spawn in one run.
MaxWorkers == 2
\* CPU readings (poll cycles that reach psutil.cpu_percent) in one run.
MaxCycles == 2
\* Process identifiers the operating system hands out: 1..MaxPid.
MaxPid == 2
\* Entries of a process list handed to the table or the sorter.
MaxList == 2
\* Samples pushed on the CPU history in one run of the history alone.
MaxPushes == 62
\* Base-1024 digits of a size given to format_bytes.
MaxDigits == 7

\* ------------------------------------------------------ program constants
\* deque(maxlen=60)
HistoryMaxLen == 60
\* SystemMonitor(self._update_queue, poll_rate=2.0), in hundredths of a second
AppPollRate == 200
\* max(0.1, value), in hundredths of a second
MinPollRate == 10
\* self._thread = None
NoThread == 0
\* size < 1024, size / 1024
Kilo == 1024
\* Queue(): maxsize defaults to 0, no limit
QueueMaxsize == 0
\* username[:10]
UserWidth == 10
\* "..." * (20 - bar_len), min(bar_len, 20)
BarWidth == 20
\* int(usage / 5)
PercentPerCell == 5

Workers == 1..MaxWorkers
Pids == 1..MaxPid

VARIABLES
    stop_event,    \* SystemMonitor._stop_event (threading.Event flag)
    thread,        \* SystemMonitor._thread: a worker id, or NoThread
    pc,            \* per worker: position in _poll_loop
    elapsed,       \* per worker: the poll interval of its current wait is over
    snap,          \* per worker: the snapshot it is assembling (local variables)
    cycles,        \* number of CPU readings taken so far
    cpu_history,   \* SystemMonitor._cpu_history
    queue,         \* the Queue shared by monitor and app
    caller,        \* the thread that calls start()/stop(): position, arguments, last result
    sort_key,      \* ProcessTable._sort_key
    sort_reverse,  \* ProcessTable._sort_reverse
    current_pids,  \* ProcessTable._current_pids
    rows,          \* the DataTable's rows, top to bottom
    header,        \* HeaderStats._cpu_percents (the reading shown), 0 before the first render
    scan,          \* history: per worker, what process_iter gave in the cycle being assembled
    wake,          \* history: per worker, how its wait began and why it returned
    lastTick,      \* history: what the most recent tick found and rendered, and the
                   \* reading shown before the most recent render
    lastUpdate,    \* history: the most recent update_processes call, what it was given
                   \* and the row operations it issued
    sortCalls,     \* history: number of cycle_sort calls so far, counted modulo the
                   \* number of sort keys, and the key the last call returned
    lastSort,      \* history: the most recent direct _sort_processes call: its list,
                   \* the key it sorted by and what it returned
    poll_rate,     \* SystemMonitor._poll_rate, in hundredths of a second
    published,     \* history: the workers that have put a snapshot on the queue since
                   \* the stop event was last set
    lastCall,      \* history: the most recent call of get_cpu_history, format_bytes
                   \* or of a field assignment, with its argument and outcome (for
                   \* get_cpu_history the list its caller holds)
    overwritten    \* the per-core sample lists, each named by the reading that made
                   \* it, an element of which has been assigned since

vars == <<stop_event, thread, pc, elapsed, snap, cycles, cpu_history, queue,
          caller, sort_key, sort_reverse, current_pids, rows, header,
          scan, wake, lastTick, lastUpdate, sortCalls, lastSort,
          poll_rate, published, lastCall, overwritten>>

monitorVars == <<stop_event, thread, caller, poll_rate, lastCall, overwritten>>
workerVars == <<pc, elapsed, snap, cycles, cpu_history, scan, wake, published>>
tableVars == <<sort_key, sort_reverse, current_pids, rows, header, lastTick,
               lastUpdate, sortCalls, lastSort>>

\* ------------------------------------------------------------ strings
Digits == <<"0", "1", "2", "3", "4", "5", "6", "7", "8", "9">>

\* str(n) for n >= 0
RECURSIVE Str(_)
Str(n) ==
    IF n < 10 THEN <<Digits[n + 1]>>
    ELSE Str(n \div 10) \o <<Digits[(n % 10) + 1]>>

\* right-justify s in a field of the given width
RECURSIVE PadLeft(_, _)
PadLeft(s, width) ==
    IF Len(s) >= width THEN s ELSE PadLeft(<<" ">> \o s, width)

\* f"{x:5.1f}" for a whole-numbered x
Fmt51(x) == PadLeft(Str(x) \o <<".", "0">>, 5)

\* s[:n]
Truncate(s, n) == IF Len(s) <= n THEN s ELSE SubSeq(s, 1, n)

\* The characters that occur, in code-point order.
Alphabet == <<"A", "B", "R", "a", "b", "o", "r", "t">>
Ord(c) == CHOOSE i \in 1..Len(Alphabet) : Alphabet[i] = c

LowerChar(c) ==
    CASE c = "A" -> "a"
      [] c = "B" -> "b"
      [] c = "R" -> "r"
      [] OTHER -> c

\* str.lower()
Lower(s) == [i \in 1..Len(s) |-> LowerChar(s[i])]

\* s < t on Python strings (lexicographic by code point)
RECURSIVE StrLess(_, _)
StrLess(s, t) ==
    IF t = <<>> THEN FALSE
    ELSE IF s = <<>> THEN TRUE
    ELSE IF Ord(Head(s)) # Ord(Head(t)) THEN Ord(Head(s)) < Ord(Head(t))
    ELSE StrLess(Tail(s), Tail(t))

\* ------------------------------------------------- the operating system
\* What psutil reports for process p at the time of CPU reading t: the owner
\* depends on the process, the load figures change from one reading to the next.
UserOf(p) ==
    CASE p % 3 = 1 -> <<"r", "o", "o", "t">>
      [] p % 3 = 2 -> <<"R", "o", "o", "t">>
      [] OTHER -> <<"b", "o", "b">>

CpuOf(p, t) == ((p + t) % 2) * 50
MemOf(p, t) == (p * t) % 3

\* ProcessSnapshot(pid=..., username=..., cpu_percent=..., memory_percent=...)
ProcessSnapshot(p, t) ==
    [pid |-> p, username |-> UserOf(p), cpu_percent |-> CpuOf(p, t),
     memory_percent |-> MemOf(p, t)]

\* psutil.process_iter: the live processes in ascending pid order
RECURSIVE Enumerate(_)
Enumerate(live) ==
    IF live = {} THEN <<>>
    ELSE LET p == CHOOSE x \in live : \A y \in live : x <= y
         IN  <<p>> \o Enumerate(live \ {p})

\* _collect_processes: the loop over process_iter; a process whose query raises
\* NoSuchProcess, AccessDenied or ZombieProcess is skipped (continue)
RECURSIVE CollectLoop(_, _, _, _)
CollectLoop(enum, failing, t, processes) ==
    IF enum = <<>> THEN processes
    ELSE LET p == Head(enum)
         IN  IF p \in failing
             THEN CollectLoop(Tail(enum), failing, t, processes)
             ELSE CollectLoop(Tail(enum), failing, t,
                              Append(processes, ProcessSnapshot(p, t)))

\* As _collect_processes, had the except clause ended the loop (break) instead of
\* going on to the next process (continue).
RECURSIVE CollectUntilFailure(_, _, _)
CollectUntilFailure(enum, failing, t) ==
    IF enum = <<>> \/ Head(enum) \in failing THEN <<>>
    ELSE <<ProcessSnapshot(Head(enum), t)>> \o CollectUntilFailure(Tail(enum), failing, t)

_collect_processes(enum, failing, t) == CollectLoop(enum, failing, t, <<>>)

\* ----------------------------------------------------------- monitor
Alive(w) == pc[w] \notin {"unborn", "dead"}
AliveWorkers == {w \in Workers : Alive(w)}

\* SystemMonitor.is_running
is_running == thread # NoThread /\ Alive(thread)

NoSnap == [cpu_percent_per_core |-> 0, processes |-> <<>>]
NoScan == [enum |-> <<>>, failing |-> {}]

\* As DequeAppend, had the history been a plain list.
ListAppend(d, x) == Append(d, x)

\* deque.append on a deque with maxlen
DequeAppend(d, x) ==
    IF Len(d) >= HistoryMaxLen THEN Append(Tail(d), x) ELSE Append(d, x)

Unborn == {w \in Workers : pc[w] = "unborn"}

\* As Start, had start() left the stop signal as it found it.
StartKeepingSignal ==
    /\ caller.pc = "idle"
    /\ IF is_running
       THEN /\ caller' = [caller EXCEPT !.last = "start_noop", !.ret = "None"]
            /\ UNCHANGED <<stop_event, thread, pc, wake, published>>
       ELSE /\ Unborn # {}
            /\ LET w == CHOOSE x \in Unborn : \A y \in Unborn : x <= y
               IN  /\ stop_event' = stop_event
                   /\ thread' = w
                   /\ pc' = [pc EXCEPT ![w] = "check"]
                   /\ wake' = [wake EXCEPT ![w] = "none"]
                   /\ published' = {}
            /\ caller' = [caller EXCEPT !.last = "start_spawn", !.ret = "None"]
    /\ UNCHANGED <<elapsed, snap, cycles, cpu_history, scan, queue, tableVars,
                   poll_rate, lastCall, overwritten>>

\* SystemMonitor.start.  One step: between the is_running test and Thread.start the
\* method reads no state a worker writes except is_alive, and a thread that is not alive
\* stays so; a worker's loop test falls before or after the clear() either way.
Start ==
    /\ caller.pc = "idle"
    /\ IF is_running
       THEN /\ caller' = [caller EXCEPT !.last = "start_noop", !.ret = "None"]
            /\ UNCHANGED <<stop_event, thread, pc, wake, published>>
       ELSE /\ Unborn # {}
            /\ LET w == CHOOSE x \in Unborn : \A y \in Unborn : x <= y
               IN  /\ stop_event' = FALSE
                   /\ thread' = w
                   /\ pc' = [pc EXCEPT ![w] = "check"]
                   /\ wake' = [wake EXCEPT ![w] = "none"]
                   /\ published' = {}
            /\ caller' = [caller EXCEPT !.last = "start_spawn", !.ret = "None"]
    /\ UNCHANGED <<elapsed, snap, cycles, cpu_history, scan, queue, tableVars,
                   poll_rate, lastCall, overwritten>>

\* What stop() hands back to its caller: the method has no return statement.
StopResult(timedOut) == "None"

\* As StopCall, had stop() joined whatever self._thread holds.
StopCallAlwaysJoins(timeout) ==
    /\ caller.pc = "idle"
    /\ stop_event' = TRUE
    /\ caller' = [pc |-> "join", timeout |-> timeout, last |-> "stop_call", ret |-> "-"]
    /\ published' = IF stop_event THEN published ELSE {}
    /\ UNCHANGED <<thread, poll_rate, lastCall, overwritten>>
    /\ UNCHANGED <<pc, elapsed, snap, cycles, cpu_history, scan, wake, queue, tableVars>>

\* SystemMonitor.stop: set the event, then join the thread if there is one
StopCall(timeout) ==
    /\ caller.pc = "idle"
    /\ stop_event' = TRUE
    /\ IF thread # NoThread
       THEN caller' = [pc |-> "join", timeout |-> timeout, last |-> "stop_call", ret |-> "-"]
       ELSE caller' = [pc |-> "idle", timeout |-> "none", last |-> "stop_nothread",
                       ret |-> StopResult(FALSE)]
    /\ published' = IF stop_event THEN published ELSE {}
    /\ UNCHANGED <<thread, poll_rate, lastCall, overwritten>>
    /\ UNCHANGED <<pc, elapsed, snap, cycles, cpu_history, scan, wake, queue, tableVars>>

\* Thread.join(timeout) returns: the thread ended, or a finite timeout ran out
JoinMayReturn == ~Alive(thread) \/ caller.timeout = "finite"

\* SystemMonitor.stop, after the join: self._thread = None
StopReturn ==
    /\ caller.pc = "join"
    /\ JoinMayReturn
    /\ thread' = NoThread
    /\ caller' = [pc |-> "idle", timeout |-> "none",
                  last |-> IF Alive(thread) THEN "stop_timeout" ELSE "stop_joined",
                  ret |-> StopResult(Alive(thread))]
    /\ UNCHANGED <<stop_event, poll_rate, lastCall, overwritten, workerVars, queue, tableVars>>

\* The poll_rate setter: self._poll_rate = max(0.1, value)
ClampRate(value) == IF value < MinPollRate THEN MinPollRate ELSE value

SetPollRate(value) ==
    /\ poll_rate' = ClampRate(value)
    /\ UNCHANGED <<stop_event, thread, caller, lastCall, overwritten, workerVars, queue,
                   tableVars>>

\* self._stop_event.wait(timeout=self._poll_rate): the interval a wait is given
WaitTimeout == poll_rate

\* ------------------------------------------------------------ worker
\* As WorkerCheck, had the loop of _poll_loop been `while True`.
WorkerCheckIgnoringStop(w) ==
    /\ pc[w] = "check"
    /\ cycles < MaxCycles
    /\ pc' = [pc EXCEPT ![w] = "cpu"]
    /\ wake' = [wake EXCEPT ![w] = "none"]
    /\ UNCHANGED <<elapsed, snap, cycles, cpu_history, scan, published, monitorVars, queue,
                   tableVars>>

\* _poll_loop: while not self._stop_event.is_set()
WorkerCheck(w) ==
    /\ pc[w] = "check"
    /\ IF stop_event
       THEN pc' = [pc EXCEPT ![w] = "dead"]
       ELSE /\ cycles < MaxCycles
            /\ pc' = [pc EXCEPT ![w] = "cpu"]
    /\ wake' = [wake EXCEPT ![w] = "none"]
    /\ UNCHANGED <<elapsed, snap, cycles, cpu_history, scan, published, monitorVars, queue,
                   tableVars>>

\* The worker reaches self._stop_event.wait: the interval starts; the history notes
\* whether the flag was already set.
EnterWait(w) ==
    /\ elapsed' = [elapsed EXCEPT ![w] = FALSE]
    /\ wake' = [wake EXCEPT ![w] = IF stop_event THEN "preset" ELSE "armed"]

\* As CycleFailed, had _poll_loop no except clause: the exception ends the thread.
CycleFailedEndsThread(w) ==
    /\ pc' = [pc EXCEPT ![w] = "dead"]
    /\ snap' = [snap EXCEPT ![w] = NoSnap]
    /\ scan' = [scan EXCEPT ![w] = NoScan]
    /\ elapsed' = [elapsed EXCEPT ![w] = FALSE]
    /\ UNCHANGED wake

\* The except clause of _poll_loop: the cycle is given up, the loop goes on to the wait
CycleFailed(w) ==
    /\ pc' = [pc EXCEPT ![w] = "wait"]
    /\ snap' = [snap EXCEPT ![w] = NoSnap]
    /\ scan' = [scan EXCEPT ![w] = NoScan]
    /\ EnterWait(w)

\* _collect_snapshot, first half: psutil.cpu_percent and the history append
WorkerCpu(w) ==
    /\ pc[w] = "cpu"
    /\ \/ /\ cycles' = cycles + 1
          /\ cpu_history' = DequeAppend(cpu_history, cycles + 1)
          /\ snap' = [snap EXCEPT ![w] = [cpu_percent_per_core |-> cycles + 1, processes |-> <<>>]]
          /\ pc' = [pc EXCEPT ![w] = "procs"]
          /\ UNCHANGED <<elapsed, scan, wake>>
       \/ /\ CycleFailed(w)
          /\ UNCHANGED <<cycles, cpu_history>>
    /\ UNCHANGED <<published, monitorVars, queue, tableVars>>

\* _collect_snapshot, second half: memory, load, uptime and _collect_processes
WorkerProcs(w, failures) ==
    /\ pc[w] = "procs"
    /\ \/ \E failing \in failures :
            /\ snap' = [snap EXCEPT ![w].processes =
                           _collect_processes(Enumerate(Pids), failing,
                                              snap[w].cpu_percent_per_core)]
            /\ scan' = [scan EXCEPT ![w] = [enum |-> Enumerate(Pids), failing |-> failing]]
            /\ pc' = [pc EXCEPT ![w] = "put"]
            /\ UNCHANGED <<elapsed, wake>>
       \/ CycleFailed(w)
    /\ UNCHANGED <<cycles, cpu_history, published, monitorVars, queue, tableVars>>

\* As PutReturns, had the queue been made with maxsize=1.
PutReturnsSingleSlot(q) == Len(q) < 1

\* Queue.put(item) with block=True and no timeout returns when the queue has no
\* maxsize (maxsize <= 0) or holds fewer than maxsize items; else it waits for a slot.
PutReturns(q) == QueueMaxsize <= 0 \/ Len(q) < QueueMaxsize

\* self._queue.put(snapshot), then on to the wait
WorkerPut(w) ==
    /\ pc[w] = "put"
    /\ PutReturns(queue)
    /\ queue' = Append(queue, snap[w])
    /\ snap' = [snap EXCEPT ![w] = NoSnap]
    /\ scan' = [scan EXCEPT ![w] = NoScan]
    /\ pc' = [pc EXCEPT ![w] = "wait"]
    /\ EnterWait(w)
    /\ published' = IF stop_event THEN published \cup {w} ELSE published
    /\ UNCHANGED <<cycles, cpu_history, monitorVars, tableVars>>

\* The poll interval of a waiting worker runs out.
IntervalElapses(w) ==
    /\ pc[w] = "wait"
    /\ ~elapsed[w]
    /\ elapsed' = [elapsed EXCEPT ![w] = TRUE]
    /\ UNCHANGED <<pc, snap, cycles, cpu_history, scan, wake, published, monitorVars, queue,
                   tableVars>>

\* Event.wait(timeout) returns when the flag is set or the timeout is over
WaitMayReturn(w) == stop_event \/ elapsed[w]

\* self._stop_event.wait(timeout=self._poll_rate) returns
WorkerWait(w) ==
    /\ pc[w] = "wait"
    /\ WaitMayReturn(w)
    /\ wake' = [wake EXCEPT ![w] =
                    CASE stop_event /\ wake[w] = "armed" /\ ~elapsed[w] -> "signal"
                      [] stop_event -> "flag"
                      [] OTHER -> "timeout"]
    /\ pc' = [pc EXCEPT ![w] = "check"]
    /\ elapsed' = [elapsed EXCEPT ![w] = FALSE]
    /\ UNCHANGED <<snap, cycles, cpu_history, scan, published, monitorVars, queue, tableVars>>

\* ------------------------------------------------------- process table
\* key_func[self._sort_key]
KeyOf(p, key) ==
    CASE key = "CPU" -> p.cpu_percent
      [] key = "MEM" -> p.memory_percent
      [] key = "PID" -> p.pid
      [] key = "USER" -> Lower(p.username)

KeyLess(a, b, key) ==
    IF key = "USER" THEN StrLess(KeyOf(a, key), KeyOf(b, key))
    ELSE KeyOf(a, key) < KeyOf(b, key)

\* As Precedes, had reverse been left out of the sorted() call.
PrecedesAscending(x, e, key, reverse) == KeyLess(x, e, key)

\* x sorts strictly before e
Precedes(x, e, key, reverse) ==
    IF reverse THEN KeyLess(e, x, key) ELSE KeyLess(x, e, key)

\* As SortedInsert, had the list been left in the order given.
SortedAppend(s, x, key, reverse) == Append(s, x)

RECURSIVE SortedInsert(_, _, _, _)
SortedInsert(s, x, key, reverse) ==
    IF s = <<>> THEN <<x>>
    ELSE IF Precedes(x, Head(s), key, reverse) THEN <<x>> \o s
    ELSE <<Head(s)>> \o SortedInsert(Tail(s), x, key, reverse)

\* sorted(processes, key=..., reverse=...): stable in both directions
RECURSIVE Sorted(_, _, _, _)
Sorted(processes, key, reverse, acc) ==
    IF processes = <<>> THEN acc
    ELSE Sorted(Tail(processes), key, reverse,
                SortedInsert(acc, Head(processes), key, reverse))

\* As _sort_processes, had the descending order been made by sorting ascending and
\* reversing the result.
SortThenReverse(processes, key, reverse) ==
    LET ascending == Sorted(processes, key, FALSE, <<>>)
    IN  IF reverse
        THEN [k \in 1..Len(ascending) |-> ascending[Len(ascending) + 1 - k]]
        ELSE ascending

_sort_processes(processes, key, reverse) == Sorted(processes, key, reverse, <<>>)

PidSet(processes) == {processes[i].pid : i \in 1..Len(processes)}
RowKeys(rs) == {rs[i].key : i \in 1..Len(rs)}

\* The cells of a row as _add_row and _update_row write them
Cells(proc) ==
    <<Str(proc.pid), Truncate(proc.username, UserWidth),
      Fmt51(proc.cpu_percent), Fmt51(proc.memory_percent)>>

\* As RemoveRow, had the row of a pid that left been kept.
KeepRow(rs, key) == rs

\* table.remove_row(key) inside try/except: an absent row is left alone
RemoveRow(rs, key) == SelectSeq(rs, LAMBDA r : r.key # key)

\* _update_row: update_cell on each column; an absent row raises and is passed over
_update_row(rs, key, proc) ==
    [i \in 1..Len(rs) |-> IF rs[i].key = key THEN [key |-> key, cells |-> Cells(proc)] ELSE rs[i]]

\* _add_row: add_row appends at the bottom; a duplicate key raises and is passed over
_add_row(rs, key, proc) ==
    IF key \in RowKeys(rs) THEN rs ELSE Append(rs, [key |-> key, cells |-> Cells(proc)])

\* As RemoveAll, had the rows of the pids that left stayed in the table.
RemoveNone(rs, pids) == rs

RECURSIVE RemoveAll(_, _)
RemoveAll(rs, pids) ==
    IF pids = {} THEN rs
    ELSE LET p == CHOOSE x \in pids : TRUE
         IN  RemoveAll(RemoveRow(rs, Str(p)), pids \ {p})

RECURSIVE UpdateOrAdd(_, _, _)
UpdateOrAdd(rs, sorted, tracked) ==
    IF sorted = <<>> THEN rs
    ELSE LET proc == Head(sorted)
             row_key == Str(proc.pid)
         IN  UpdateOrAdd(IF proc.pid \in tracked
                         THEN _update_row(rs, row_key, proc)
                         ELSE _add_row(rs, row_key, proc),
                         Tail(sorted), tracked)

\* As pids_to_remove, had the table been rebuilt: every tracked row is removed.
AllTracked(tracked, new_pids) == tracked

\* pids_to_remove = self._current_pids - new_pids
pids_to_remove(tracked, new_pids) == tracked \ new_pids

\* As update_processes, had the exception of an absent row not been caught where it
\* is raised: the call ends there, here before it has changed the table.
UpdateProcessesAborting(rs, tracked, processes, key, reverse) ==
    LET sorted == _sort_processes(processes, key, reverse)
        new_pids == PidSet(sorted)
    IN  IF \E p \in tracked : Str(p) \notin RowKeys(rs) THEN rs
        ELSE UpdateOrAdd(RemoveAll(rs, pids_to_remove(tracked, new_pids)), sorted, tracked)

\* ProcessTable.update_processes: the rows it leaves
update_processes(rs, tracked, processes, key, reverse) ==
    LET sorted == _sort_processes(processes, key, reverse)
        new_pids == PidSet(sorted)
    IN  UpdateOrAdd(RemoveAll(rs, pids_to_remove(tracked, new_pids)), sorted, tracked)

\* As TrackedAfter, had the new pids been added to the tracked ones.
TrackedUnion(tracked, processes) == tracked \cup PidSet(processes)

\* self._current_pids = new_pids
TrackedAfter(tracked, processes) == PidSet(processes)

\* The row operations update_processes issues on the DataTable, in the order of the
\* code: the removals, in the order RemoveAll takes them, then one update or
\* insertion per sorted process.
RECURSIVE Removals(_)
Removals(pids) ==
    IF pids = {} THEN <<>>
    ELSE LET p == CHOOSE x \in pids : TRUE
         IN  <<[op |-> "remove", pid |-> p]>> \o Removals(pids \ {p})

RECURSIVE UpdatesAndInserts(_, _)
UpdatesAndInserts(sorted, tracked) ==
    IF sorted = <<>> THEN <<>>
    ELSE <<[op |-> IF Head(sorted).pid \in tracked THEN "update" ELSE "add",
            pid |-> Head(sorted).pid]>> \o UpdatesAndInserts(Tail(sorted), tracked)

Operations(tracked, sorted) ==
    Removals(pids_to_remove(tracked, PidSet(sorted))) \o UpdatesAndInserts(sorted, tracked)

\* The record of one update_processes call on the table showing rs
UpdateRecord(rs, tracked, processes, key, reverse, flip) ==
    LET sorted == _sort_processes(processes, key, reverse)
    IN  [tracked |-> tracked, processes |-> processes,
         ops |-> Operations(tracked, sorted),
         missed |-> {p \in tracked : Str(p) \notin RowKeys(rs)},
         flip |-> flip]

\* A direct call of update_processes
UpdateProcesses(processes) ==
    /\ rows' = update_processes(rows, current_pids, processes, sort_key, sort_reverse)
    /\ current_pids' = TrackedAfter(current_pids, processes)
    /\ lastUpdate' = UpdateRecord(rows, current_pids, processes, sort_key, sort_reverse,
                                  ~lastUpdate.flip)
    /\ UNCHANGED <<sort_key, sort_reverse, header, lastTick, sortCalls, lastSort,
                   monitorVars, workerVars, queue>>

\* Something other than update_processes removes a row from the DataTable
ExternalRemoveRow(key) ==
    /\ key \in RowKeys(rows)
    /\ rows' = RemoveRow(rows, key)
    /\ UNCHANGED <<sort_key, sort_reverse, current_pids, header, lastTick, lastUpdate,
                   sortCalls, lastSort, monitorVars, workerVars, queue>>

\* list(SortKey)
SortKeys == <<"CPU", "MEM", "PID", "USER">>

\* As NextKey, without the modulo: the last key has no successor and stays.
NextKeyNoWrap(key) ==
    LET current_index == CHOOSE i \in 1..Len(SortKeys) : SortKeys[i] = key
    IN  IF current_index = Len(SortKeys) THEN key ELSE SortKeys[current_index + 1]

\* keys[(keys.index(self._sort_key) + 1) % len(keys)]
NextKey(key) ==
    LET current_index == CHOOSE i \in 1..Len(SortKeys) : SortKeys[i] = key
    IN  SortKeys[(current_index % Len(SortKeys)) + 1]

\* As ReverseFor, had only CPU been sorted downwards.
ReverseForCpuOnly(key) == key = "CPU"

\* self._sort_key in (SortKey.CPU, SortKey.MEM)
ReverseFor(key) == key \in {"CPU", "MEM"}

\* As cycle_sort, had it cleared the table for the next update to fill.
cycle_sort_redrawing ==
    /\ sort_key' = NextKey(sort_key)
    /\ sort_reverse' = ReverseFor(sort_key')
    /\ sortCalls' = [n |-> (sortCalls.n + 1) % Len(SortKeys), ret |-> sort_key']
    /\ rows' = <<>>
    /\ current_pids' = {}
    /\ UNCHANGED <<header, lastTick, lastUpdate, lastSort, monitorVars, workerVars, queue>>

\* ProcessTable.cycle_sort: the next key, and the direction that goes with it
cycle_sort ==
    /\ sort_key' = NextKey(sort_key)
    /\ sort_reverse' = ReverseFor(sort_key')
    /\ sortCalls' = [n |-> (sortCalls.n + 1) % Len(SortKeys), ret |-> sort_key']
    /\ UNCHANGED <<current_pids, rows, header, lastTick, lastUpdate, lastSort,
                   monitorVars, workerVars, queue>>

\* A direct call of _sort_processes
SortCall(processes) ==
    /\ lastSort' = [processes |-> processes, key |-> sort_key,
                    sorted |-> _sort_processes(processes, sort_key, sort_reverse)]
    /\ UNCHANGED <<sort_key, sort_reverse, current_pids, rows, header, lastTick,
                   lastUpdate, sortCalls, monitorVars, workerVars, queue>>

\* ------------------------------------------------------------ consumer
\* As GetNowaitReturns, had the loop called the blocking Queue.get(): on an empty
\* queue the call waits for the producer.
BlockingGetReturns(q) == q # <<>>

\* Queue.get_nowait() comes back at once whatever the queue holds: with an item, or
\* by raising Empty
GetNowaitReturns(q) == TRUE

\* The drain loop ends: each call it makes on the queue, the last one on the queue
\* it has emptied, comes back
RECURSIVE DrainReturns(_)
DrainReturns(q) ==
    IF q = <<>> THEN GetNowaitReturns(q)
    ELSE GetNowaitReturns(q) /\ DrainReturns(Tail(q))

\* As InitialSnapshot, had the tick kept the snapshot of the tick before (an
\* attribute instead of a local variable).
StaleSnapshot ==
    IF header = 0 THEN <<>>
    ELSE <<[cpu_percent_per_core |-> header, processes |-> <<>>]>>

\* snapshot = None, as a sequence of at most one element
InitialSnapshot == <<>>

\* As Drain, had the loop stopped at the first snapshot it got.
DrainFirstOnly(q, snapshot) ==
    IF q = <<>> THEN snapshot ELSE <<Head(q)>>

\* The drain loop of _check_for_updates: the snapshot it is left holding,
\* as a sequence of at most one element (empty: snapshot is None)
RECURSIVE Drain(_, _)
Drain(q, snapshot) ==
    IF q = <<>> THEN snapshot ELSE Drain(Tail(q), <<Head(q)>>)

\* What the consumer shows: header, table rows, tracked pids; `rendered` lists the
\* readings of the snapshots handed to the render hooks by the tick at hand, `raised`
\* the hooks that raised.
Shown == [header |-> header, rows |-> rows, current_pids |-> current_pids, rendered |-> <<>>,
          lastUpdate |-> lastUpdate, raised |-> {}]

\* As _update_ui, had one try block held both updates: a header update that raises
\* skips the table update.
_update_ui_one_try(shown, snapshot, key, reverse, raises) ==
    LET skipped == raises # {}
    IN  [header |-> IF "header" \in raises THEN shown.header
                    ELSE snapshot.cpu_percent_per_core,
         rows |-> IF skipped THEN shown.rows
                  ELSE update_processes(shown.rows, shown.current_pids, snapshot.processes,
                                        key, reverse),
         current_pids |-> IF skipped THEN shown.current_pids
                          ELSE TrackedAfter(shown.current_pids, snapshot.processes),
         lastUpdate |-> IF skipped THEN shown.lastUpdate
                        ELSE UpdateRecord(shown.rows, shown.current_pids, snapshot.processes,
                                          key, reverse, ~shown.lastUpdate.flip),
         rendered |-> Append(shown.rendered, snapshot.cpu_percent_per_core),
         raised |-> raises]

\* PytopApp._update_ui: HeaderStats.update_stats, then ProcessTable.update_processes,
\* each in a try block of its own.  `raises` names the updates that raise: the header's
\* before update_stats has assigned anything (query_one), the table's before
\* update_processes has touched a row (query_one, _sort_processes; the row operations
\* catch their own exceptions).
_update_ui(shown, snapshot, key, reverse, raises) ==
    [header |-> IF "header" \in raises THEN shown.header ELSE snapshot.cpu_percent_per_core,
     rows |-> IF "table" \in raises THEN shown.rows
              ELSE update_processes(shown.rows, shown.current_pids, snapshot.processes,
                                    key, reverse),
     current_pids |-> IF "table" \in raises THEN shown.current_pids
                      ELSE TrackedAfter(shown.current_pids, snapshot.processes),
     lastUpdate |-> IF "table" \in raises THEN shown.lastUpdate
                    ELSE UpdateRecord(shown.rows, shown.current_pids, snapshot.processes,
                                      key, reverse, ~shown.lastUpdate.flip),
     rendered |-> Append(shown.rendered, snapshot.cpu_percent_per_core),
     raised |-> raises]

\* As RenderKept, had the tick dropped the snapshot it was left holding.
RenderNothing(shown, kept, key, reverse, raises) == shown

\* As RenderKept, had the tick redrawn from an empty snapshot when it drained nothing.
RenderKeptOrBlank(shown, kept, key, reverse, raises) ==
    _update_ui(shown, IF kept # <<>> THEN kept[1] ELSE NoSnap, key, reverse, raises)

\* _check_for_updates after the drain: if snapshot is not None: self._update_ui(snapshot)
RenderKept(shown, kept, key, reverse, raises) ==
    IF kept # <<>> THEN _update_ui(shown, kept[1], key, reverse, raises) ELSE shown

\* The render hooks that may raise in one tick: none, or any of the two.
NoRaises == {{}}
AnyRaises == SUBSET {"header", "table"}

\* PytopApp._check_for_updates, one timer tick.  One step, taken at the get_nowait that
\* raises Empty: every snapshot put before it has been taken, in queue order, and the
\* render that follows touches only the consumer's own state.
TickRaising(raising) ==
    \E raises \in raising :
    \E after \in {RenderKept(Shown, Drain(queue, InitialSnapshot), sort_key, sort_reverse,
                             raises)} :
        /\ DrainReturns(queue)
        /\ queue' = <<>>
        /\ header' = after.header
        /\ rows' = after.rows
        /\ current_pids' = after.current_pids
        /\ lastTick' = [drained |-> Len(queue), rendered |-> after.rendered,
                        before |-> IF after.rendered = <<>> THEN lastTick.before ELSE header,
                        raised |-> after.raised]
        /\ lastUpdate' = after.lastUpdate
        /\ UNCHANGED <<sort_key, sort_reverse, sortCalls, lastSort, monitorVars, workerVars>>

\* A tick whose render hooks do not raise
Tick == TickRaising(NoRaises)

\* ------------------------------------------------------- cpu history
\* _collect_snapshot, the push alone: self._cpu_history.append(cpu_percents), the
\* sample being the number of the reading
HistoryAppend ==
    /\ cycles < MaxPushes
    /\ cycles' = cycles + 1
    /\ cpu_history' = DequeAppend(cpu_history, cycles + 1)
    /\ UNCHANGED <<pc, elapsed, snap, scan, wake, published, monitorVars, queue, tableVars>>

\* As get_cpu_history, had it handed the samples back newest first.
NewestFirst(history) == [i \in 1..Len(history) |-> history[Len(history) + 1 - i]]

\* list(self._cpu_history): a new list of the samples, left to right
get_cpu_history(history) == [i \in 1..Len(history) |-> history[i]]

\* A call of get_cpu_history; the history notes how many samples had been pushed
GetCpuHistory ==
    /\ lastCall' = [op |-> "get_cpu_history", arg |-> cycles,
                    ret |-> get_cpu_history(cpu_history)]
    /\ UNCHANGED <<stop_event, thread, caller, poll_rate, overwritten, workerVars, queue,
                   tableVars>>

\* The caller of get_cpu_history deletes the first item of the list it was given:
\* list(...) made that list, nothing else refers to it.
ViewDelItem ==
    /\ lastCall.op = "get_cpu_history"
    /\ lastCall.ret # <<>>
    /\ lastCall' = [lastCall EXCEPT !.ret = Tail(@)]
    /\ UNCHANGED <<stop_event, thread, caller, poll_rate, overwritten, workerVars, queue,
                   tableVars>>

\* The caller of get_cpu_history assigns an element of the i-th sample of the list it
\* was given (history[i][0] = x): list(...) copied the references, so the sample is
\* the list object the deque holds and the snapshot of that cycle holds.
ViewSetItem(i) ==
    /\ lastCall.op = "get_cpu_history"
    /\ i \in 1..Len(lastCall.ret)
    /\ overwritten' = overwritten \cup {lastCall.ret[i]}
    /\ UNCHANGED <<stop_event, thread, caller, poll_rate, lastCall, workerVars, queue,
                   tableVars>>

\* What a per-core sample list holds: the reading that made it, until an element of it
\* is assigned
PerCoreValues(sample) == IF sample \in overwritten THEN 0 ELSE sample

\* ------------------------------------------------------- format_bytes
\* A size is written in base 1024, most significant digit first and without leading
\* zeros (2048 is <<2, 0>>); a value being scaled has a whole part and the digits
\* divided out so far, nearest to the point first.
Scaled(size) == [whole |-> size, frac |-> <<>>]

\* As BelowKilo, had the test been size <= 1024.
AtMostKilo(v) ==
    \/ Len(v.whole) <= 1
    \/ /\ v.whole = <<1, 0>>
       /\ \A i \in 1..Len(v.frac) : v.frac[i] = 0

\* size < 1024
BelowKilo(v) == Len(v.whole) <= 1

\* size = size / 1024: float division, exact for a power of two
DivideByKilo(v) ==
    [whole |-> SubSeq(v.whole, 1, Len(v.whole) - 1),
     frac |-> <<v.whole[Len(v.whole)]>> \o v.frac]

\* ["B", "K", "M", "G", "T"]
UnitNames == <<"B", "K", "M", "G", "T">>

\* The for loop of format_bytes and the return after it; the result is the scaled
\* value and the unit that tags it (the digits of the text are not worked out)
RECURSIVE FormatLoop(_, _)
FormatLoop(v, units) ==
    IF units = <<>> THEN [scaled |-> v, unit |-> "P"]
    ELSE IF BelowKilo(v) THEN [scaled |-> v, unit |-> Head(units)]
    ELSE FormatLoop(DivideByKilo(v), Tail(units))

format_bytes(size) == FormatLoop(Scaled(size), UnitNames)

\* One call of format_bytes from the initial state
FormatBytes(size) ==
    /\ lastCall.op = "none"
    /\ lastCall' = [op |-> "format_bytes", arg |-> size, ret |-> format_bytes(size)]
    /\ UNCHANGED <<stop_event, thread, caller, poll_rate, overwritten, workerVars, queue,
                   tableVars>>

\* ------------------------------------------------------- models
\* As FrozenSetattr, had the dataclass not been frozen: the field takes the value.
PlainSetattr(obj, field, value) ==
    [obj |-> [obj EXCEPT ![field] = value], raised |-> <<>>]

\* @dataclass(slots=True, frozen=True): assigning a field raises FrozenInstanceError
\* and the object is as it was
FrozenSetattr(obj, field, value) == [obj |-> obj, raised |-> <<"FrozenInstanceError">>]

\* The values code holding a ProcessSnapshot might assign to a field
AssignableValues(field) ==
    CASE field = "username" -> {UserOf(p) : p \in Pids}
      [] field = "pid" -> Pids
      [] field = "cpu_percent" -> {CpuOf(p, t) : p \in Pids, t \in 1..MaxCycles}
      [] field = "memory_percent" -> {MemOf(p, t) : p \in Pids, t \in 1..MaxCycles}

\* Some code assigns a field of process j of the i-th snapshot on the queue
AssignField(i, j, field, value) ==
    LET out == FrozenSetattr(queue[i].processes[j], field, value)
    IN  /\ queue' = [queue EXCEPT ![i].processes[j] = out.obj]
        /\ lastCall' = [op |-> "setattr", arg |-> <<i, j, field>>, ret |-> out.raised]
        /\ UNCHANGED <<stop_event, thread, caller, poll_rate, overwritten, workerVars,
                       tableVars>>

\* ------------------------------------------------------- header bars
\* Percentages are written in tenths of a percent: 25.3 is 253.
\* "x" * n: the empty string when n is not positive
RECURSIVE Repeat(_, _)
Repeat(cell, n) == IF n <= 0 THEN <<>> ELSE <<cell>> \o Repeat(cell, n - 1)

\* As BarLen, had the cap been left out.
BarLenUncapped(percent) == percent \div (PercentPerCell * 10)

\* bar_len = int(usage / 5); bar_len = min(bar_len, 20)
BarLen(percent) ==
    LET bar_len == percent \div (PercentPerCell * 10)
    IN  IF bar_len < BarWidth THEN bar_len ELSE BarWidth

\* "█" * bar_len + "░" * (20 - bar_len)
Bar(bar_len) == Repeat("full", bar_len) \o Repeat("empty", BarWidth - bar_len)

\* _get_cpu_info, one core
CpuBar(usage) == Bar(BarLen(usage))

\* _get_mem_info, the memory bar
MemBar(memory_percent) == Bar(BarLen(memory_percent))

\* _get_mem_info, the swap bar: int(self._swap_percent / 5) if self._swap_total > 0 else 0
SwapBar(swap_percent, swap_total) ==
    LET swap_bar_len == IF swap_total > 0 THEN swap_percent \div (PercentPerCell * 10) ELSE 0
    IN  Bar(IF swap_bar_len < BarWidth THEN swap_bar_len ELSE BarWidth)

\* The header's bars are drawn for one core's usage, a memory and a swap percentage
DrawBars(usage, memory_percent, swap_percent, swap_total) ==
    /\ lastCall.op = "none"
    /\ lastCall' = [op |-> "bars",
                    arg |-> [usage |-> usage, memory_percent |-> memory_percent,
                             swap_percent |-> swap_percent, swap_total |-> swap_total],
                    ret |-> [cpu |-> CpuBar(usage), mem |-> MemBar(memory_percent),
                             swap |-> SwapBar(swap_percent, swap_total)]]
    /\ UNCHANGED <<stop_event, thread, caller, poll_rate, overwritten, workerVars, queue,
                   tableVars>>

\* ------------------------------------------------------- application
\* PytopApp.on_mount: self._monitor.start(), once, when the app is mounted
OnMount ==
    /\ caller.last = "none"
    /\ Start

\* The timer's tick runs on the app's own thread: not while action_quit is waiting in
\* the join, and not after the exit.
AppTick ==
    /\ caller.pc = "idle"
    /\ caller.last # "none"
    /\ Tick

\* PytopApp.action_quit, first statement: self._monitor.stop(), with stop's default
\* timeout of 5 seconds
QuitStop ==
    /\ caller.last \in {"start_spawn", "start_noop"}
    /\ StopCall("finite")

\* As QuitExit, had action_quit called self.exit() without stopping the monitor.
QuitExitOnly ==
    /\ caller.pc = "idle"
    /\ caller.last \in {"start_spawn", "start_noop", "stop_joined", "stop_timeout",
                        "stop_nothread"}
    /\ caller' = [caller EXCEPT !.pc = "exited"]
    /\ UNCHANGED <<stop_event, thread, poll_rate, lastCall, overwritten, workerVars, queue,
                   tableVars>>

\* PytopApp.action_quit, second statement: self.exit(), once stop() has returned
QuitExit ==
    /\ caller.pc = "idle"
    /\ caller.last \in {"stop_joined", "stop_timeout", "stop_nothread"}
    /\ caller' = [caller EXCEPT !.pc = "exited"]
    /\ UNCHANGED <<stop_event, thread, poll_rate, lastCall, overwritten, workerVars, queue,
                   tableVars>>

\* ------------------------------------------------------- specification
\* The state after construction with SystemMonitor(queue, poll_rate=rate)
InitState(rate) ==
    /\ poll_rate = rate
    /\ published = {}
    /\ lastCall = [op |-> "none", arg |-> <<>>, ret |-> <<>>]
    /\ overwritten = {}
    /\ stop_event = FALSE
    /\ thread = NoThread
    /\ pc = [w \in Workers |-> "unborn"]
    /\ elapsed = [w \in Workers |-> FALSE]
    /\ snap = [w \in Workers |-> NoSnap]
    /\ cycles = 0
    /\ cpu_history = <<>>
    /\ queue = <<>>
    /\ caller = [pc |-> "idle", timeout |-> "none", last |-> "none", ret |-> "-"]
    /\ sort_key = "CPU"
    /\ sort_reverse = TRUE
    /\ current_pids = {}
    /\ rows = <<>>
    /\ header = 0
    /\ scan = [w \in Workers |-> NoScan]
    /\ wake = [w \in Workers |-> "none"]
    /\ lastTick = [drained |-> 0, rendered |-> <<>>, before |-> 0, raised |-> {}]
    /\ lastUpdate = [tracked |-> {}, processes |-> <<>>, ops |-> <<>>, missed |-> {},
                     flip |-> FALSE]
    /\ lastSort = [processes |-> <<>>, key |-> "CPU", sorted |-> <<>>]
    /\ sortCalls = [n |-> 0, ret |-> "-"]

\* PytopApp.__init__: SystemMonitor(self._update_queue, poll_rate=2.0)
Init == InitState(AppPollRate)

\* Every subset of the enumerated processes may fail its query.
AnyFailures == SUBSET Pids
\* No process fails its query.
NoFailures == {{}}

WorkerStep(w, failures) ==
    \/ WorkerCheck(w)
    \/ WorkerCpu(w)
    \/ WorkerProcs(w, failures)
    \/ WorkerPut(w)
    \/ IntervalElapses(w)
    \/ WorkerWait(w)

\* The monitor's life cycle: start, stop and the workers.  Nothing takes from the queue
\* here, so the queue lists every snapshot published so far; the consumer, which touches
\* no state of the monitor, is part of SpecPipeline.
Next ==
    \/ Start
    \/ \E timeout \in {"finite", "none"} : StopCall(timeout)
    \/ StopReturn
    \/ \E w \in Workers : WorkerStep(w, NoFailures)

Spec == Init /\ [][Next]_vars

\* The monitor's life cycle with threads that are scheduled: a worker that can move on
\* in _poll_loop is not held back for ever.
SpecLive == Init /\ [][Next]_vars /\ \A w \in Workers : WF_pc(WorkerStep(w, NoFailures))

\* The monitor stopped with stop(timeout=None) only: the join waits for the worker to
\* end, so every stop() that joins returns with the worker terminated.
NextRestart ==
    \/ Start
    \/ StopCall("none")
    \/ StopReturn
    \/ \E w \in Workers : WorkerStep(w, NoFailures)

SpecRestart ==
    Init /\ [][NextRestart]_vars /\ \A w \in Workers : WF_pc(WorkerStep(w, NoFailures))

\* The pipeline: a started monitor polling a fallible process source, and the consumer.
NextPipeline ==
    \/ Start
    \/ \E w \in Workers : WorkerStep(w, AnyFailures)
    \/ Tick

SpecPipeline == Init /\ [][NextPipeline]_vars

\* The pipeline with the worker threads scheduled and nothing said about the timer:
\* the consumer may tick or not.
SpecPipelineWorkers ==
    Init /\ [][NextPipeline]_vars /\ \A w \in Workers : WF_pc(WorkerStep(w, AnyFailures))

\* What a tick does to the queue: the loop of _check_for_updates takes every
\* snapshot there is.  Of the steps of NextPipeline, the ticks that find a
\* snapshot are the ones that empty the queue.
TickDrains == DrainReturns(queue) /\ queue # <<>> /\ queue' = <<>>

\* The pipeline with the timer of on_mount, set_interval(0.5, self._check_for_updates),
\* firing again and again: a tick that has something to take is not put off for ever.
SpecPipelineLive == Init /\ [][NextPipeline]_vars /\ WF_queue(TickDrains)

\* The process lists update_processes is given: up to MaxList processes of one
\* reading, in any order, a process possibly more than once.
RECURSIVE ListsUpTo(_, _)
ListsUpTo(S, n) ==
    IF n = 0 THEN {<<>>}
    ELSE LET shorter == ListsUpTo(S, n - 1)
         IN  shorter \cup {Append(l, x) : l \in shorter, x \in S}

ProcessLists ==
    UNION {ListsUpTo({ProcessSnapshot(p, t) : p \in Pids}, MaxList) : t \in 1..MaxCycles}

\* The process lists the table is given: in ascending pid order, as process_iter
\* gives them, a pid possibly more than once.
SnapshotLists ==
    {l \in ProcessLists : \A i \in 1..(Len(l) - 1) : l[i].pid <= l[i + 1].pid}

\* The process table on its own: it is given process lists, its sort key is cycled,
\* and the timer ticks with no monitor publishing.
NextTable ==
    \/ \E processes \in SnapshotLists : UpdateProcesses(processes)
    \/ cycle_sort
    \/ Tick

SpecTable == Init /\ [][NextTable]_vars

\* The sort engine on its own: the key is cycled and lists are sorted by it.
NextSort ==
    \/ cycle_sort
    \/ \E processes \in ProcessLists : SortCall(processes)

SpecSort == Init /\ [][NextSort]_vars

\* Poll rates a caller may ask for, in hundredths of a second: below, at and above
\* the minimum.
RequestedRates == {5, MinPollRate, AppPollRate}

\* A monitor constructed with any of the rates
InitMonitor == \E rate \in RequestedRates : InitState(rate)

\* The monitor with its poll rate chosen at construction and set while it runs.
NextPollRate ==
    \/ Start
    \/ \E value \in RequestedRates : SetPollRate(value)
    \/ \E w \in Workers : WorkerStep(w, NoFailures)

SpecPollRate == InitMonitor /\ [][NextPollRate]_vars

\* The sizes format_bytes is given: zero, and up to MaxDigits digits, the first one of
\* the digits of 500, 2048, 5242880 and 1073741824 or the greatest, the others the
\* least or the greatest.
RECURSIVE DigitsAfter(_)
DigitsAfter(n) ==
    IF n = 0 THEN {<<>>}
    ELSE {<<d>> \o rest : d \in {0, Kilo - 1}, rest \in DigitsAfter(n - 1)}

Sizes ==
    {<<0>>} \cup
    UNION {{<<d>> \o rest : d \in {1, 2, 5, 500, Kilo - 1}, rest \in DigitsAfter(n)} :
           n \in 0..(MaxDigits - 1)}

\* format_bytes on its own.
NextFormat == \E size \in Sizes : FormatBytes(size)

SpecFormat == Init /\ [][NextFormat]_vars

\* The monitor publishing snapshots whose processes some holder tries to change.
NextFrozen ==
    \/ Start
    \/ \E w \in Workers : WorkerStep(w, NoFailures)
    \/ \E i \in 1..Len(queue) : \E j \in 1..Len(queue[i].processes) :
          \E field \in {"pid", "username", "cpu_percent", "memory_percent"} :
             \E value \in AssignableValues(field) : AssignField(i, j, field, value)

SpecFrozen == Init /\ [][NextFrozen]_vars

\* The CPU history on its own: samples are pushed and the history is read.
NextHistory ==
    \/ HistoryAppend
    \/ GetCpuHistory

SpecHistory == Init /\ [][NextHistory]_vars

\* The monitor polling and a caller that reads the CPU history and changes what it
\* was given.
NextView ==
    \/ Start
    \/ \E w \in Workers : WorkerStep(w, NoFailures)
    \/ GetCpuHistory
    \/ ViewDelItem
    \/ \E i \in 1..HistoryMaxLen : ViewSetItem(i)

SpecView == Init /\ [][NextView]_vars

\* The pipeline with render hooks that may raise.
NextRender ==
    \/ Start
    \/ \E w \in Workers : WorkerStep(w, NoFailures)
    \/ TickRaising(AnyRaises)

SpecRender == Init /\ [][NextRender]_vars

\* Lists of processes taken from any readings, so that different processes with the
\* same load figures stand in one list.
MixedLists ==
    ListsUpTo({ProcessSnapshot(p, t) : p \in Pids, t \in 1..MaxCycles}, MaxList)

\* One call of _sort_processes under any key
NextStable ==
    \/ cycle_sort
    \/ \E processes \in MixedLists : lastSort.processes = <<>> /\ SortCall(processes)

SpecStable == Init /\ [][NextStable]_vars

\* The application from mount to exit: the monitor is started, the timer ticks, the
\* user quits.
NextApp ==
    \/ OnMount
    \/ \E w \in Workers : WorkerStep(w, NoFailures)
    \/ AppTick
    \/ QuitStop
    \/ StopReturn
    \/ QuitExit

SpecApp == Init /\ [][NextApp]_vars

\* Percentages the header is given, in tenths: around the first cell's threshold,
\* inside the scale, around 100 and above it.
Percentages == {0, 49, 50, 253, 999, 1000, 1001, 1500}

\* swap_total: no swap, or some
SwapTotals == {0, Kilo}

NextBars ==
    \E usage \in Percentages, memory_percent \in Percentages, swap_percent \in Percentages,
       swap_total \in SwapTotals :
        DrawBars(usage, memory_percent, swap_percent, swap_total)

SpecBars == Init /\ [][NextBars]_vars

\* The process table with rows of the DataTable disappearing behind its back.
NextTableRace ==
    \/ \E processes \in SnapshotLists : UpdateProcesses(processes)
    \/ \E key \in RowKeys(rows) : ExternalRemoveRow(key)

SpecTableRace == Init /\ [][NextTableRace]_vars
\* ---------------------------------------------------------------- claims
Last(q) == q[Len(q)]
PidsOf(processes) == [i \in 1..Len(processes) |-> processes[i].pid]
Position(seq, x) == CHOOSE i \in 1..Len(seq) : seq[i] = x

\* The process list holds each enumerated process whose query succeeded once, none whose
\* query failed, in the order of the enumeration.
ExactlyTheSucceeded(processes, enum, failing) ==
    LET got == PidsOf(processes)
    IN  /\ \A i \in 1..Len(got) :
              /\ got[i] \notin failing
              /\ \E k \in 1..Len(enum) : enum[k] = got[i]
        /\ \A k \in 1..Len(enum) :
              enum[k] \notin failing => \E i \in 1..Len(got) : got[i] = enum[k]
        /\ \A i, j \in 1..Len(got) :
              i < j => Position(enum, got[i]) < Position(enum, got[j])

\* C1: a poll cycle in which any subset of the enumerated processes fails its query
\* (NoSuchProcess, AccessDenied, ZombieProcess) is not aborted: the snapshot it has
\* assembled lists exactly the processes whose query succeeded, in enumeration order,
\* and the worker's next step publishes that one snapshot and leaves the worker alive.
C1_FailedQueriesAreSkipped ==
    /\ [](\A w \in Workers :
            pc[w] = "put" =>
                ExactlyTheSucceeded(snap[w].processes, scan[w].enum, scan[w].failing))
    /\ [][\A w \in Workers :
            /\ (pc[w] = "procs" /\ scan'[w].enum # <<>>) => pc'[w] = "put"
            /\ (pc[w] = "put" /\ pc'[w] # "put") =>
                   /\ queue' = Append(queue, snap[w])
                   /\ pc'[w] = "wait"]_vars

\* C1 witness: a worker about to publish a cycle in which one query failed and
\* another succeeded.
C1_Witness ==
    \E w \in Workers :
        /\ pc[w] = "put"
        /\ scan[w].failing # {}
        /\ snap[w].processes # <<>>

\* C2: an unexpected failure inside a poll cycle is caught at the cycle boundary: the
\* step publishes nothing and drops the snapshot being assembled, the worker stays
\* alive and goes to its interval wait, the wait leads back to the loop test, and the
\* loop test starts the next cycle unless stop was requested.
C2_CycleFailureIsCaught ==
    [][\A w \in Workers :
        /\ (\/ pc[w] = "cpu" /\ pc'[w] \notin {"cpu", "procs"}
            \/ pc[w] = "procs" /\ pc'[w] \notin {"procs", "put"}) =>
               /\ pc'[w] = "wait"
               /\ queue' = queue
               /\ snap'[w] = NoSnap
        /\ (pc[w] = "wait" /\ pc'[w] # "wait") => pc'[w] = "check"
        /\ (pc[w] = "check" /\ pc'[w] # "check" /\ ~stop_event) => pc'[w] = "cpu"]_vars

\* C2 witness: the first worker's first cycle took reading 1 and published nothing, and
\* the same worker went on to publish the cycle of reading 2.
C2_Witness ==
    /\ pc[1] = "wait"
    /\ pc[2] = "unborn"
    /\ cycles = 2
    /\ Len(queue) = 1
    /\ queue[1].cpu_percent_per_core = 2

\* C3: start() on a monitor whose worker is alive is a no-op, and after any number of
\* consecutive start() calls exactly one worker is active.
C3_StartLeavesOneWorker ==
    caller.last \in {"start_spawn", "start_noop"} => Cardinality(AliveWorkers) = 1

\* C4: in every reachable state at most one worker of the monitor is alive.
C4_AtMostOneWorker == Cardinality(AliveWorkers) <= 1

\* C5: is_running is true exactly when a worker thread spawned by the monitor is alive.
C5_IsRunningIffAlive == is_running <=> AliveWorkers # {}

\* C6: after a stop() whose join saw the worker end, is_running is false and no snapshot
\* is published until the next start().
C6_NoPublishAfterStop ==
    [][caller'.last = "stop_joined" =>
          /\ ~is_running'
          /\ caller.last = "stop_joined" => queue' = queue]_vars

\* C7: a stop() whose timeout ran out hands its caller a status that differs from what
\* a stop() in which the worker ended hands back.
C7_TimeoutIsReported ==
    caller.last = "stop_timeout" => caller.ret # StopResult(FALSE)

\* C8: a worker whose wait was ended by the stop signal, set while it waited and before
\* the interval was over, leaves its loop without starting another poll cycle.
C8_SignalledWorkerExits ==
    [][\A w \in Workers :
        (pc[w] = "check" /\ wake[w] = "signal" /\ pc'[w] # "check") => pc'[w] = "dead"]_vars

\* C9: a tick that finds k >= 1 unread snapshots empties the queue and renders exactly
\* one snapshot, the most recently published one: header and tracked pids are those of
\* the last snapshot of the queue.
C9_TickRendersNewestOnly ==
    [][Len(queue') < Len(queue) =>
          /\ queue' = <<>>
          /\ lastTick'.drained = Len(queue)
          /\ lastTick'.rendered = <<Last(queue).cpu_percent_per_core>>
          /\ header' = Last(queue).cpu_percent_per_core
          /\ current_pids' = PidSet(Last(queue).processes)]_vars

\* C9 witness: a tick has drained two snapshots and rendered one.
C9_Witness ==
    /\ lastTick.drained >= 2
    /\ lastTick.rendered = <<header>>

\* C10: a tick that follows a rendering tick with no publish in between finds nothing:
\* it calls no render hook and leaves tracked pids, rows and header as the first tick
\* set them, the header being the snapshot the first tick rendered.
C10_SecondTickIsNoUpdate ==
    [][(lastTick.drained > 0 /\ lastTick'.drained = 0) =>
          /\ lastTick.rendered = <<header>>
          /\ lastTick'.rendered = <<>>
          /\ UNCHANGED <<current_pids, rows, header>>]_vars

\* C10 witness: the last tick found nothing, after an earlier tick rendered a snapshot
\* with processes.
C10_Witness ==
    /\ lastTick.drained = 0
    /\ header # 0
    /\ rows # <<>>

\* C11: the number of unread snapshots in the queue stays below a fixed bound, also when
\* the consumer does not tick: in a run of MaxCycles poll cycles it stays below MaxCycles.
C11_UnreadBounded == Len(queue) < MaxCycles

C13_RendersInPublishOrder ==
    [][((lastTick' # lastTick \/ Len(queue') < Len(queue)) /\ lastTick'.rendered # <<>>) =>
          /\ Len(lastTick'.rendered) = 1
          /\ lastTick'.rendered[1] > header
          /\ header' = lastTick'.rendered[1]]_vars

\* C13 witness: a tick has rendered a snapshot after an earlier tick rendered an older one.
C13_Witness ==
    /\ lastTick.rendered = <<header>>
    /\ lastTick.before > 0
    /\ lastTick.before < header

\* The pids a process list holds
PidSetOf(processes) == {processes[i].pid : i \in 1..Len(processes)}

\* Number of operations of one kind that ops holds for pid p
CountOps(ops, kind, p) ==
    Cardinality({i \in 1..Len(ops) : ops[i].op = kind /\ ops[i].pid = p})

\* Number of entries of a process list with pid p
Incoming(processes, p) ==
    Cardinality({i \in 1..Len(processes) : processes[i].pid = p})

\* C14: update_processes with tracked set P and an incoming list with pid set N issues
\* exactly one removal per pid of P \ N, one update per incoming process whose pid is in
\* P and one insertion per incoming process whose pid is not in P.
C14_ExactRowOperations ==
    LET P == lastUpdate.tracked
        N == PidSetOf(lastUpdate.processes)
        ops == lastUpdate.ops
    IN  /\ \A i \in 1..Len(ops) : ops[i].pid \in Pids /\ ops[i].op \in {"remove", "update", "add"}
        /\ \A p \in Pids :
              /\ CountOps(ops, "remove", p) = IF p \in P \ N THEN 1 ELSE 0
              /\ CountOps(ops, "update", p) =
                     IF p \in P THEN Incoming(lastUpdate.processes, p) ELSE 0
              /\ CountOps(ops, "add", p) =
                     IF p \notin P THEN Incoming(lastUpdate.processes, p) ELSE 0

\* C14 witness: the table tracking {1, 2} was given a list holding only 2: one removal
\* (of 1), one update, no insertion.
C14_Witness ==
    /\ lastUpdate.tracked = {1, 2}
    /\ PidSetOf(lastUpdate.processes) = {2}
    /\ Len(lastUpdate.processes) = 1
    /\ lastUpdate.ops = <<[op |-> "remove", pid |-> 1], [op |-> "update", pid |-> 2]>>

\* C15: the tracked pid set is the pid set of the list of the most recent
\* update_processes call (empty before the first), in every state: the call sets it, and
\* cycle_sort and a tick that drains nothing, which leave the record of that call
\* alone, do not change it.
C15_TrackedIsIncoming == current_pids = PidSetOf(lastUpdate.processes)

\* C15 witness: an update has shrunk the tracked set and the sort key has been cycled.
C15_Witness ==
    /\ lastUpdate.tracked = Pids
    /\ current_pids # {}
    /\ current_pids # Pids
    /\ sort_key = "PID"

\* C16: an update_processes call some of whose removals or updates target absent rows
\* still ends, applies the other operations and sets the tracked set: rows of pids that
\* left are gone, every new pid has its row, a tracked row that is present shows the
\* incoming process, and an absent one stays absent.
C16_AbsentRowIsNoOp ==
    [][lastUpdate'.flip # lastUpdate.flip =>
          LET P == current_pids
              processes == lastUpdate'.processes
              N == PidSetOf(processes)
              Shows(rs, p) == \E i \in 1..Len(rs) : \E j \in 1..Len(processes) :
                                  /\ rs[i].key = Str(p)
                                  /\ processes[j].pid = p
                                  /\ rs[i].cells = Cells(processes[j])
              Has(rs, p) == \E i \in 1..Len(rs) : rs[i].key = Str(p)
          IN  /\ current_pids' = N
              /\ \A p \in P \ N : ~Has(rows', p)
              /\ \A p \in N \ P : Shows(rows', p)
              /\ \A p \in N \cap P : IF Has(rows, p) THEN Shows(rows', p) ELSE ~Has(rows', p)]_vars

\* C16 witness: a call whose update targeted an absent row has inserted another row.
C16_Witness ==
    /\ lastUpdate.missed \cap PidSetOf(lastUpdate.processes) # {}
    /\ \E i \in 1..Len(lastUpdate.ops) : lastUpdate.ops[i].op = "add"
    /\ current_pids = PidSetOf(lastUpdate.processes)
    /\ \E i \in 1..Len(rows) : \E p \in current_pids \ lastUpdate.tracked : rows[i].key = Str(p)

\* C17: the sort key starts at CPU and each cycle_sort call moves it one place on in
\* CPU, MEM, PID, USER, CPU and returns it: after n calls it is element n mod 4.
C17_KeyCycles ==
    /\ sort_key = <<"CPU", "MEM", "PID", "USER">>[(sortCalls.n % 4) + 1]
    /\ sortCalls.ret = "-" => sortCalls.n = 0
    /\ sortCalls.ret # "-" => sortCalls.ret = sort_key

\* C17 witness: the calls have gone round the cycle and the last returned CPU.
C17_Witness ==
    /\ sortCalls.n = 0
    /\ sortCalls.ret = "CPU"
    /\ sort_key = "CPU"

\* C18: in every state the direction is descending exactly when the key is CPU or MEM.
C18_DirectionFollowsKey ==
    /\ sort_key \in {"CPU", "MEM"} => sort_reverse
    /\ sort_key \in {"PID", "USER"} => ~sort_reverse

\* C18 witness: a table holding rows whose key has been cycled to an ascending one.
C18_Witness ==
    /\ sort_key = "USER"
    /\ ~sort_reverse
    /\ rows # <<>>

\* a goes before or ties with b under the order the key stands for
InOrder(a, b, key) ==
    CASE key = "CPU" -> a.cpu_percent >= b.cpu_percent
      [] key = "MEM" -> a.memory_percent >= b.memory_percent
      [] key = "PID" -> a.pid <= b.pid
      [] key = "USER" -> ~StrLess(Lower(b.username), Lower(a.username))

Occurrences(l, x) == Cardinality({i \in 1..Len(l) : l[i] = x})

SameEntries(l, m) ==
    /\ Len(l) = Len(m)
    /\ \A i \in 1..Len(l) : Occurrences(l, l[i]) = Occurrences(m, l[i])

Reorderings(l) == {[i \in 1..Len(l) |-> l[f[i]]] : f \in Permutations(1..Len(l))}

\* a and b have the same value of the key
Tied(a, b, key) == InOrder(a, b, key) /\ InOrder(b, a, key)

\* C20 as stated: every list holding the same processes as the one sorted gives the
\* same output sequence.
C20_SameSetSameSequence ==
    \A l \in Reorderings(lastSort.processes) :
        _sort_processes(l, lastSort.key, lastSort.key \in {"CPU", "MEM"}) = lastSort.sorted

\* C20, amended: every list holding the same processes as the one sorted gives an
\* output with the same entries and, place by place, the same key values; the outputs
\* differ at most in the order of entries whose key values are equal.
C20_SameSetSameKeys ==
    \A l \in Reorderings(lastSort.processes) :
        LET other == _sort_processes(l, lastSort.key, lastSort.key \in {"CPU", "MEM"})
        IN  /\ SameEntries(other, lastSort.sorted)
            /\ \A i \in 1..Len(other) : Tied(other[i], lastSort.sorted[i], lastSort.key)

\* C20 witness: the list sorted holds two different processes with equal key values.
C20_Witness ==
    \E i, j \in 1..Len(lastSort.sorted) :
        /\ lastSort.sorted[i] # lastSort.sorted[j]
        /\ Tied(lastSort.sorted[i], lastSort.sorted[j], lastSort.key)

\* The smaller of two numbers
Least(a, b) == IF a <= b THEN a ELSE b

\* C21: after n pushes the history holds exactly min(n, 60) samples, and never more
\* than 60.
C21_HistoryLength ==
    /\ Len(cpu_history) = Least(cycles, 60)
    /\ Len(cpu_history) <= 60

\* C21 witness: more than 60 samples have been pushed and the history holds 60.
C21_Witness ==
    /\ cycles > 60
    /\ Len(cpu_history) = 60

\* C22: get_cpu_history, called after n pushes, returns the last min(n, 60) samples
\* pushed, oldest first; the buffer itself holds them in that order, so a push at
\* capacity has evicted the oldest sample and no other.
C22_HistoryIsLastSamples ==
    /\ \A i \in 1..Len(cpu_history) : cpu_history[i] = cycles - Len(cpu_history) + i
    /\ lastCall.op = "get_cpu_history" =>
          /\ Len(lastCall.ret) = Least(lastCall.arg, 60)
          /\ \A i \in 1..Len(lastCall.ret) :
                lastCall.ret[i] = lastCall.arg - Len(lastCall.ret) + i

\* C22 witness: the history was read after 61 pushes: it starts at the second sample.
C22_Witness ==
    /\ lastCall.op = "get_cpu_history"
    /\ lastCall.arg = 61
    /\ Len(lastCall.ret) = 60
    /\ lastCall.ret[1] = 2
    /\ lastCall.ret[60] = 61

\* C23: whatever interval was asked for, at construction or through the setter, a
\* worker in its wait has been given at least 0.1 s (10 hundredths).
C23_WaitAtLeastMinimum ==
    \A w \in Workers : pc[w] = "wait" => WaitTimeout >= 10

\* size >= 1024^k, for a size in base-1024 digits without leading zeros
AtLeastPower(size, k) == Len(size) > k

\* The number a size of at most four digits stands for
RECURSIVE SizeValue(_)
SizeValue(size) ==
    IF size = <<>> THEN 0
    ELSE SizeValue(SubSeq(size, 1, Len(size) - 1)) * 1024 + size[Len(size)]

\* C24: format_bytes tags a size with B below 1024, K below 1024^2, M below 1024^3,
\* G below 1024^4, T below 1024^5 and P from 1024^5 on.
C24_UnitByThreshold ==
    lastCall.op = "format_bytes" =>
        lastCall.ret.unit =
            CASE ~AtLeastPower(lastCall.arg, 1) -> "B"
              [] ~AtLeastPower(lastCall.arg, 2) -> "K"
              [] ~AtLeastPower(lastCall.arg, 3) -> "M"
              [] ~AtLeastPower(lastCall.arg, 4) -> "G"
              [] ~AtLeastPower(lastCall.arg, 5) -> "T"
              [] OTHER -> "P"

\* C24 witness: 1073741824 (1024^3) is tagged G.
C24_Witness ==
    /\ lastCall.op = "format_bytes"
    /\ lastCall.arg = <<1, 0, 0, 0>>
    /\ SizeValue(lastCall.arg) = 1073741824
    /\ lastCall.ret.unit = "G"

C26_PublishedIsRendered ==
    \A n \in 1..MaxCycles :
        (\E i \in 1..Len(queue) : queue[i].cpu_percent_per_core = n)
            ~> (header >= n /\ current_pids = PidSetOf(lastUpdate.processes))

\* C26 witness: every reading taken has been published and the newest is on screen.
C26_Witness ==
    /\ cycles > 1
    /\ header = cycles
    /\ queue = <<>>
    /\ \A w \in Workers : snap[w] = NoSnap
    /\ current_pids = PidSetOf(lastUpdate.processes)

\* C27: after every update_processes call the rows, read top to bottom, are in the
\* order the current sort key gives for the processes just passed in: of two rows, the
\* process of the upper one sorts no later than the process of the lower one.
C27_RowsInSortOrder ==
    [][lastUpdate'.flip # lastUpdate.flip =>
          LET given == lastUpdate'.processes
          IN  \A i, j \in 1..Len(rows') :
                  i < j =>
                      \A a, b \in 1..Len(given) :
                          (Str(given[a].pid) = rows'[i].key /\ Str(given[b].pid) = rows'[j].key)
                              => InOrder(given[a], given[b], sort_key')]_vars

\* C28: a process whose query is skipped in a cycle is not in the snapshot that cycle
\* publishes, and the tick that renders a snapshot leaves no row and no tracked pid for
\* a process that had a row from the render before and is not in the snapshot.
C28_SkippedProcessLeavesTable ==
    [][/\ \A w \in Workers :
              (pc[w] = "put" /\ pc'[w] # "put" /\ queue' # queue) =>
                  /\ Last(queue') = snap[w]
                  /\ PidSetOf(snap[w].processes) = Pids \ scan[w].failing
       /\ (queue # <<>> /\ queue' = <<>> /\ header > 0) =>
              \A p \in Pids :
                  (Str(p) \in RowKeys(rows) /\ p \notin PidSetOf(Last(queue).processes)) =>
                      /\ Str(p) \notin RowKeys(rows')
                      /\ p \notin current_pids']_vars

\* C28 witness: the tick has rendered the snapshot that follows the one rendered
\* before; a process tracked until then was skipped in its cycle and has neither a row
\* nor a place in the tracked set.
C28_Witness ==
    /\ lastTick.rendered # <<>>
    /\ lastTick.before > 0
    /\ header = lastTick.before + 1
    /\ \E p \in lastUpdate.tracked :
           /\ p \notin PidSetOf(lastUpdate.processes)
           /\ p \notin current_pids
           /\ Str(p) \notin RowKeys(rows)
    /\ RowKeys(rows) # {}

\* C29: with nothing but update_processes changing the table, the row keys in the
\* table are the keys of the tracked pids, whatever lists the calls were given: lists
\* that repeat a pid and empty lists too.
C29_RowKeysAreTracked == RowKeys(rows) = {Str(p) : p \in current_pids}

\* C29 witness: a call on a table with rows was given a list that repeats a pid and
\* lacks a tracked one.
C29_Witness ==
    /\ Len(lastUpdate.processes) > Cardinality(PidSetOf(lastUpdate.processes))
    /\ lastUpdate.tracked \ current_pids # {}
    /\ current_pids \ lastUpdate.tracked # {}
    /\ RowKeys(rows) # {}

\* C30: while the stop signal is set (no start() has cleared it) a worker publishes at
\* most once, a worker that is in its interval wait or at the loop test publishes
\* nothing and only goes on to the loop test and the exit, and every worker exits.
C30_AtMostOneMoreThenExit ==
    /\ [][\A w \in Workers :
              /\ (stop_event /\ pc[w] = "put" /\ pc'[w] # "put") =>
                     /\ w \notin published
                     /\ w \in published'
              /\ (stop_event /\ stop_event'
                     /\ (pc[w] \in {"wait", "check", "dead"} \/ w \in published)) =>
                     /\ pc'[w] \in {"wait", "check", "dead"}
                     /\ pc'[w] # pc[w] => queue' = queue]_vars
    /\ \A w \in Workers :
           (stop_event /\ pc[w] \notin {"unborn", "dead"}) ~> (pc[w] = "dead" \/ ~stop_event)

\* C30 witness: with the stop signal set, a worker has published the snapshot of the
\* cycle it was in and has exited.
C30_Witness ==
    /\ stop_event
    /\ published # {}
    /\ \A w \in published : pc[w] = "dead"
    /\ queue # <<>>

\* C31: a start() that follows a stop() in which the worker terminated clears the stop
\* signal and spawns a new worker in the same step, so before that worker's first loop
\* test; is_running is then true; the new worker, unless stop() is called again first,
\* passes its loop test and runs a poll cycle.
C31_RestartRuns ==
    /\ [][(caller.last = "stop_joined" /\ caller'.last = "start_spawn") =>
              /\ ~stop_event'
              /\ thread' \in Unborn
              /\ pc'[thread'] = "check"
              /\ is_running'
              /\ \A w \in Workers \ {thread'} : pc'[w] = pc[w]]_vars
    /\ [][\A w \in Workers :
              (pc[w] = "check" /\ ~stop_event /\ pc'[w] # "check") => pc'[w] = "cpu"]_vars
    /\ \A w \in Workers :
           (thread = w /\ pc[w] = "check" /\ ~stop_event /\ cycles < MaxCycles)
               ~> (pc[w] = "cpu" \/ stop_event)

\* C31 witness: the first worker was stopped and joined, the monitor was started again
\* and the second worker has collected a snapshot and is about to publish it.
C31_Witness ==
    /\ caller.last = "start_spawn"
    /\ pc[1] = "dead"
    /\ thread = 2
    /\ pc[2] = "put"
    /\ snap[2].cpu_percent_per_core = cycles
    /\ ~stop_event
    /\ is_running

\* C32: stop() on a monitor that holds no thread (never started, or stopped before)
\* returns None in the step that calls it, with no join; is_running is false after it,
\* and the queue and the CPU history are as they were.
C32_StopWithoutThread ==
    [][(/\ caller.pc = "idle"
        /\ thread = NoThread
        /\ caller'.last \in {"stop_call", "stop_nothread"}
        /\ (caller' # caller \/ stop_event' # stop_event)) =>
           /\ caller'.pc = "idle"
           /\ caller'.ret = "None"
           /\ stop_event'
           /\ ~is_running'
           /\ thread' = NoThread
           /\ queue' = queue
           /\ cpu_history' = cpu_history]_vars

\* C32 witness: stop() was called again on a monitor that had been started and
\* stopped, its queue holding what the worker published.
C32_Witness ==
    /\ caller.last = "stop_nothread"
    /\ caller.pc = "idle"
    /\ pc[1] = "dead"
    /\ queue # <<>>
    /\ ~is_running

\* C33: publishing never blocks the worker: in every state in which a worker stands at
\* self._queue.put, whatever the queue holds and whether or not the consumer ticks,
\* the put returns, and the worker goes on to its interval wait.
C33_PutNeverBlocks ==
    /\ [](\A w \in Workers : pc[w] = "put" => PutReturns(queue))
    /\ \A w \in Workers : (pc[w] = "put") ~> (pc[w] = "wait")

\* C33 witness: with a snapshot unread and no tick since, the worker has published
\* another one and is in its interval wait.
C33_Witness ==
    /\ Len(queue) >= 2
    /\ lastTick.drained = 0
    /\ header = 0
    /\ \E w \in Workers : pc[w] = "wait" /\ wake[w] = "armed"

\* C34: the CPU history holds one sample per published snapshot, the newest being that
\* of the snapshot published last: whenever no worker is in the middle of a cycle, the
\* history lists the readings of the snapshots published so far, so a cycle that
\* failed has left nothing in it.
C34_HistoryMatchesPublished ==
    (\A w \in Workers : pc[w] \notin {"procs", "put"}) =>
        cpu_history = [i \in 1..Len(queue) |-> queue[i].cpu_percent_per_core]

\* C35: what get_cpu_history returns is an independent view: whatever its caller does
\* to the list or to a sample in it, the samples of the monitor's history and the
\* per-core values of the published snapshots hold the readings that made them, and
\* the history lists the readings taken, oldest first.
C35_ViewIsIndependent ==
    /\ \A i \in 1..Len(cpu_history) :
           /\ cpu_history[i] = cycles - Len(cpu_history) + i
           /\ PerCoreValues(cpu_history[i]) = cpu_history[i]
    /\ \A i \in 1..Len(queue) :
           PerCoreValues(queue[i].cpu_percent_per_core) = queue[i].cpu_percent_per_core

\* C36: a tick that renders a snapshot updates header and table independently: the
\* header shows the snapshot unless the header update raised, the table is reconciled
\* against the snapshot unless the table update raised, an update that raised leaves
\* its part as it was, and the tick ends with the queue drained whatever raised, so
\* the next tick finds the consumer ready.
C36_RenderPartsIndependent ==
    [][(queue # <<>> /\ queue' = <<>>) =>
          LET s == Last(queue)
              R == lastTick'.raised
          IN  /\ lastTick'.rendered = <<s.cpu_percent_per_core>>
              /\ "header" \notin R => header' = s.cpu_percent_per_core
              /\ "header" \in R => header' = header
              /\ "table" \notin R =>
                     /\ current_pids' = PidSetOf(s.processes)
                     /\ RowKeys(rows') = {Str(p) : p \in PidSetOf(s.processes)}
                     /\ lastUpdate'.flip # lastUpdate.flip
              /\ "table" \in R =>
                     /\ rows' = rows
                     /\ current_pids' = current_pids
              /\ DrainReturns(queue')]_vars

\* C36 witness: the header update of the latest tick raised; the header shows the
\* snapshot rendered before (a tick after one whose update raised had rendered), and
\* the table holds the processes of the snapshot at hand.
C36_Witness ==
    /\ lastTick.raised = {"header"}
    /\ lastTick.rendered # <<>>
    /\ header > 0
    /\ header < lastTick.rendered[1]
    /\ rows # <<>>
    /\ current_pids = PidSetOf(lastUpdate.processes)

\* The operations of an update_processes call that visit incoming processes
Visits(ops) == SelectSeq(ops, LAMBDA o : o.op # "remove")

\* C37: a cycle_sort call changes the sort key and the direction and nothing else: the
\* tracked pid set, the rows (which, what they show, in what order) and the header are
\* as before.  The key comes into use with the next update_processes call, which visits
\* the incoming processes in the order of the key it finds.
C37_CycleSortChangesKeyOnly ==
    /\ [][sortCalls' # sortCalls =>
              /\ sort_key' # sort_key
              /\ current_pids' = current_pids
              /\ rows' = rows
              /\ header' = header
              /\ lastUpdate' = lastUpdate
              /\ queue' = queue]_vars
    /\ [][lastUpdate'.flip # lastUpdate.flip =>
              LET given == lastUpdate'.processes
                  visits == Visits(lastUpdate'.ops)
              IN  /\ sort_key' = sort_key
                  /\ \A i, j \in 1..Len(visits) :
                         i < j =>
                             \A a, b \in 1..Len(given) :
                                 (given[a].pid = visits[i].pid /\ given[b].pid = visits[j].pid)
                                     => InOrder(given[a], given[b], sort_key)]_vars

\* C37 witness: the key has been cycled to PID over a table whose rows stand as the
\* update under an earlier key left them, pid 2 above pid 1.
C37_Witness ==
    /\ sort_key = "PID"
    /\ sortCalls.ret = "PID"
    /\ Len(rows) = 2
    /\ rows[1].key = Str(2)
    /\ rows[2].key = Str(1)
    /\ current_pids = {1, 2}

\* The entries of l whose key value is that of x, in the order l has them
TiedWith(l, x, key) == SelectSeq(l, LAMBDA e : Tied(e, x, key))

\* C38: _sort_processes is stable under every key, descending (CPU, MEM) and ascending
\* (PID, USER): the processes with one key value stand in the output in the order they
\* have in the input.
C38_SortIsStable ==
    \A i \in 1..Len(lastSort.processes) :
        LET x == lastSort.processes[i]
        IN  TiedWith(lastSort.sorted, x, lastSort.key)
                = TiedWith(lastSort.processes, x, lastSort.key)

\* C38 witness: a list sorted by CPU, descending, that holds two different processes
\* with the same cpu_percent, the one with the larger pid first, as does the output.
C38_Witness ==
    /\ lastSort.key = "CPU"
    /\ Len(lastSort.processes) = 2
    /\ lastSort.processes[1].cpu_percent = lastSort.processes[2].cpu_percent
    /\ lastSort.processes[1].pid > lastSort.processes[2].pid
    /\ lastSort.sorted = lastSort.processes

\* C39: when the application exits, the stop signal is set (stop was requested before
\* the exit), and if the join of that stop ended with the worker terminated, within
\* the timeout, no worker is alive.
C39_StopBeforeExit ==
    [][(caller.pc # "exited" /\ caller'.pc = "exited") =>
          /\ stop_event
          /\ thread = NoThread
          /\ caller.last = "stop_joined" => AliveWorkers = {}]_vars

\* C39 witness: the application has exited after a stop whose join saw the worker
\* end; the worker had published before.
C39_Witness ==
    /\ caller.pc = "exited"
    /\ caller.last = "stop_joined"
    /\ stop_event
    /\ pc[1] = "dead"
    /\ header > 0

\* The number of filled cells of a bar
Filled(bar) == Cardinality({i \in 1..Len(bar) : bar[i] = "full"})

\* k cells stand for the percentage: k = min(floor(percent / 5), 20)
CellsFor(percent, k) ==
    /\ k \in 0..20
    /\ k * 50 <= percent
    /\ k = 20 \/ percent < (k + 1) * 50

\* bar has 20 cells, the k filled ones first
WellFormed(bar, k) ==
    /\ Len(bar) = 20
    /\ Filled(bar) = k
    /\ \A i \in 1..Len(bar) : bar[i] = IF i <= k THEN "full" ELSE "empty"

\* C40: each bar drawn for a per-core usage, a memory percentage or a swap percentage
\* has exactly 20 cells, min(floor(value / 5), 20) of them filled; a value above 100
\* fills all 20, and the swap bar has no filled cell when swap_total is 0.
C40_BarsHaveTwentyCells ==
    lastCall.op = "bars" =>
        /\ WellFormed(lastCall.ret.cpu, Filled(lastCall.ret.cpu))
        /\ CellsFor(lastCall.arg.usage, Filled(lastCall.ret.cpu))
        /\ WellFormed(lastCall.ret.mem, Filled(lastCall.ret.mem))
        /\ CellsFor(lastCall.arg.memory_percent, Filled(lastCall.ret.mem))
        /\ WellFormed(lastCall.ret.swap, Filled(lastCall.ret.swap))
        /\ IF lastCall.arg.swap_total = 0
           THEN Filled(lastCall.ret.swap) = 0
           ELSE CellsFor(lastCall.arg.swap_percent, Filled(lastCall.ret.swap))
        /\ lastCall.arg.usage > 1000 => Filled(lastCall.ret.cpu) = 20

\* C40 witness: bars drawn for a usage of 150.0 (all cells filled), a memory
\* percentage of 25.3 (5 cells) and a swap percentage of 99.9 with no swap (none).
C40_Witness ==
    /\ lastCall.op = "bars"
    /\ lastCall.arg = [usage |-> 1500, memory_percent |-> 253, swap_percent |-> 999,
                       swap_total |-> 0]
    /\ Filled(lastCall.ret.cpu) = 20
    /\ Filled(lastCall.ret.mem) = 5
    /\ Filled(lastCall.ret.swap) = 0
    /\ Len(lastCall.ret.swap) = 20
====
